---- MODULE Spec2Model ----
(***************************************************************************)
(* Model of neo4j_transfer_streamlit/main.py: a Streamlit script that is   *)
(* re-executed top to bottom (main) on every operator interaction.  One    *)
(* action of the model is one interaction together with the complete       *)
(* script run(s) it triggers.  The transfer engine (package                *)
(* neo4j_transfer) is external: its answers are inputs of the actions.     *)
(***************************************************************************)
EXTENDS Integers, Sequences, FiniteSets, TLC

VARIABLES
    session_state,   \* st.session_state: the SessionKeys entries and the keyed widgets
    t_widget,        \* values typed into the target text inputs (t_uri, t_user, t_password, t_db)
    purge_target,    \* state of the "Purge target database" checkbox
    add_metadata,    \* state of the "Add transfer metadata" checkbox
    dialog_open,     \* the confirm_purge_dialog is on screen
    shown,           \* the buttons drawn by the last script run
    environ,         \* os.environ defaults of the NEO4J_* and TARGET_NEO4J_* variables
    now,             \* clock (datetime.now()): it advances with every interaction
    calls,           \* engine calls made by the last interaction, in order
    attempt,         \* what the last interaction did as a transfer attempt
    undo_call,       \* what the last interaction did as an undo
    event,           \* what the operator did in the last interaction
    transferred,     \* the TransferSpec given to the engine for each log entry
    faults           \* engine calls that have failed so far

vars == <<session_state, t_widget, purge_target, add_metadata, dialog_open,
          shown, environ, now, calls, attempt, undo_call, event,
          transferred, faults>>

----------------------------------------------------------------------------
(* Bounds of the model *)

MaxTime == 5       \* interactions in one session (the clock stops there)
MaxLog == 2        \* transfers recorded in one session
MaxStream == 3     \* items the engine stream yields in one attempt
MaxFaults == 1     \* engine calls that fail in one session

----------------------------------------------------------------------------
(* Python values *)

None == <<>>
Some(x) == <<x>>
Val(o) == o[1]

\* A URI string is a sequence of tokens; "" is the empty sequence.
EmptyUri == <<>>
BlankUri == <<" ">>
Uri(scheme, host) == <<scheme, "://", host>>

Creds(uri, username, password, database) ==
    [uri |-> uri, username |-> username, password |-> password, database |-> database]

\* str.lower() and str.strip() on token sequences
LowerTok(t) == CASE t = "BOLT" -> "bolt" [] t = "NEO4J" -> "neo4j" [] OTHER -> t
Lower(u) == [i \in 1..Len(u) |-> LowerTok(u[i])]
RECURSIVE LStrip(_)
LStrip(u) == IF u /= <<>> /\ Head(u) = " " THEN LStrip(Tail(u)) ELSE u
RECURSIVE RStrip(_)
RStrip(u) == IF u /= <<>> /\ u[Len(u)] = " " THEN RStrip(SubSeq(u, 1, Len(u) - 1)) ELSE u
Strip(u) == RStrip(LStrip(u))
StartsWith(u, p) == Len(u) >= Len(p) /\ SubSeq(u, 1, Len(p)) = p

valid_schemes == {"bolt", "bolt+ssc", "bolt+s", "neo4j", "neo4j+ssc", "neo4j+s"}

validate_uri(uri) ==
    IF uri = EmptyUri \/ Strip(uri) = <<>>
    THEN FALSE
    ELSE \E scheme \in valid_schemes : StartsWith(Lower(Strip(uri)), <<scheme, "://">>)

\* all(bool(field) for field in fields), for the (uri, password) pairs it is called with
validate_required_fields(uri, password) == uri /= EmptyUri /\ password /= ""

----------------------------------------------------------------------------
(* Inputs: what the operator can type or pick, what the engine can answer *)

Labels == {"Person", "Movie"}
RelTypes == {"ACTED_IN"}

\* os.environ.get(..) of the four NEO4J_* and the four TARGET_NEO4J_*
\* variables, each group unset or set
EnvUnset == Creds(EmptyUri, "neo4j", "", "neo4j")
EnvSource == Creds(Uri("BOLT", "src"), "neo4j", "pw", "neo4j")
EnvTarget == Creds(Uri("neo4j+s", "env"), "neo4j", "envpw", "neo4j")
EnvChoices == [source : {EnvUnset, EnvSource}, target : {EnvUnset, EnvTarget}]

SourceInputs ==
    { EnvUnset,
      EnvSource,
      Creds(Uri("BOLT", "src"), "neo4j", "pw", "other"),
      Creds(Uri("http", "src"), "neo4j", "pw", "neo4j") }

TargetInputs ==
    { Creds(EmptyUri, "", "", ""),
      Creds(Uri("bolt", "tgt"), "neo4j", "pw", "neo4j"),
      Creds(Uri("bolt", "tgt"), "", "", "") }

\* get_node_labels / get_relationship_types answers of the engine
SchemaAnswers == { <<Labels, RelTypes>>, <<{"Person"}, {}>>, <<{}, {}>> }

\* Objects the engine stream can yield: a progress object whose
\* float_completed() returns frac tenths, or an object without
\* float_completed (a controller).  NullItem is Python's None.
Fractions == {4, 15}
NullItem == [kind |-> "None", frac |-> 0]
CtrlItem == [kind |-> "controller", frac |-> 0]
Snap(f) == [kind |-> "progress", frac |-> f]
Snaps == {Snap(f) : f \in Fractions}
\* The streams of the engine: progress objects, after a controller or not
Streams ==
    UNION {{st \in [1..n -> Snaps \cup {CtrlItem}] : \A i \in 2..n : st[i] \in Snaps}
           : n \in 0..MaxStream}

Truthy(item) == item.kind /= "None"
has_float_completed(item) == item.kind = "progress"

----------------------------------------------------------------------------
(* TransferSpec (pydantic model of the engine package) and its dict form *)

TransferSpec(node_labels, relationship_types, should_append_data) ==
    [class |-> "TransferSpec",
     node_labels |-> node_labels,
     relationship_types |-> relationship_types,
     should_append_data |-> should_append_data]

\* spec.model_dump() if hasattr(spec, 'dict') else str(spec)
spec_has_dict == TRUE
model_dump(spec) ==
    IF spec_has_dict
    THEN [node_labels |-> spec.node_labels,
          relationship_types |-> spec.relationship_types,
          should_append_data |-> spec.should_append_data]
    ELSE [str |-> spec]

\* TransferSpec(**log.get("transfer_spec", {}))
TransferSpecFromDict(d) ==
    TransferSpec(d.node_labels, d.relationship_types, d.should_append_data)

\* result.model_dump() if hasattr(result, 'dict') else str(result)
result_dump(item) == [type |-> item.kind, completed |-> item.frac]

\* max(0.0, min(1.0, float(completion))), in tenths
Min(a, b) == IF a <= b THEN a ELSE b
Max(a, b) == IF a >= b THEN a ELSE b
\* Variant of clamp: max(0.0, float(completion))
clamp_below_only(completion) == Max(0, completion)
clamp(completion) == Max(0, Min(10, completion))

----------------------------------------------------------------------------
(* One script run.  A run state r is a record of everything a run reads   *)
(* or writes: ss (st.session_state), the unkeyed widgets, what is on      *)
(* screen, the record of what the interaction did, and the locals of      *)
(* main (s_creds .. ok).                                                  *)

NoAttempt == [status |-> "None", spec |-> None, source |-> None, target |-> None,
              purge |-> FALSE, consumed |-> 0, progress |-> <<>>, error |-> "",
              stream |-> <<>>]
NoUndo == [status |-> "None", idx |-> 0, creds |-> None, spec |-> None, error |-> ""]

NoEvent == [kind |-> "none", idx |-> 0]
Click(kind) == [kind |-> kind, idx |-> 0]
ClickUndoAt(idx) == [kind |-> "undo", idx |-> idx]

\* The engine is called; ok: it returns, ~ok: it raises.
Call(r, fn, creds, ok) ==
    [r EXCEPT !.calls = Append(@, [fn |-> fn, creds |-> creds, ok |-> ok, ret |-> None]),
              !.faults = IF ok THEN @ ELSE @ + 1,
              !.ok = ok]

\* The engine is called and returns ret
CallReturning(r, fn, creds, ret) ==
    [r EXCEPT !.calls = Append(@, [fn |-> fn, creds |-> creds, ok |-> TRUE,
                                   ret |-> Some(ret)]),
              !.ok = TRUE]

\* Widgets a completed run did not draw lose their state: the target text
\* inputs are re-created from the session values, the checkboxes from
\* their defaults (value=False, value=True).
DropTargetInputs(r) == [r EXCEPT !.t_widget = r.ss.target]
DropCheckboxes(r) == [r EXCEPT !.purge_target = FALSE, !.add_metadata = TRUE]
DropSelectionWidgets(r) ==
    [r EXCEPT !.ss.selected_nodes_widget = None, !.ss.selected_rels_widget = None]

validate_connection(r, creds, handshake_ok) ==
    IF ~validate_uri(creds.uri)
    THEN [r EXCEPT !.ok = FALSE]
    ELSE Call(r, "validate_credentials", creds, handshake_ok)

\* return None, False
NotConnected(r) == [r EXCEPT !.s_creds = None, !.source_connected = FALSE]

\* Variant of connect_update: the previous selection is not cleared
connect_update_keeping_selection(r, creds, e) ==
    IF ~r.ok THEN NotConnected(r)
    ELSE [r EXCEPT !.ss.node_labels = e.labels,
                   !.ss.relationship_types = e.rels,
                   !.ss.source = creds,
                   !.ss.show_refresh_message = TRUE,
                   !.rerun = TRUE]

\* lines 221-239: the session state is updated and the script is rerun
connect_update(r, creds, e) ==
    IF ~r.ok THEN NotConnected(r)
    ELSE [r EXCEPT !.ss.node_labels = e.labels,
                   !.ss.relationship_types = e.rels,
                   !.ss.source = creds,
                   !.ss.show_refresh_message = TRUE,
                   !.ss.previous_nodes = None,
                   !.ss.previous_rels = None,
                   !.ss.selected_nodes_widget = None,
                   !.ss.selected_rels_widget = None,
                   !.rerun = TRUE]

\* lines 218-219
connect_get_schema(r, creds, e) ==
    IF ~r.ok THEN NotConnected(r)
    ELSE IF e.labels = None
    THEN NotConnected(Call(r, "get_node_labels", creds, FALSE))
    ELSE IF e.rels = None
    THEN NotConnected(Call(CallReturning(r, "get_node_labels", creds, Val(e.labels)),
                           "get_relationship_types", creds, FALSE))
    ELSE connect_update(
             CallReturning(CallReturning(r, "get_node_labels", creds, Val(e.labels)),
                           "get_relationship_types", creds, Val(e.rels)),
             creds, e)

connect_to_source_database(r, creds, e) ==
    connect_get_schema(validate_connection(r, creds, e.validate_src), creds, e)

\* bool(st.session_state[NODE_LABELS])
HasNodeLabels(ss) == ss.node_labels /= None /\ Val(ss.node_labels) /= {}

\* lines 161-203.  The Type selectbox (lines 166-179) stays on the custom
\* entry, so the four source fields are what the operator typed (s_in).
render_source_database_section(r, s_in, ev, e) ==
    IF ~validate_required_fields(s_in.uri, s_in.password)
    THEN NotConnected([r EXCEPT !.ss.source = s_in])
    ELSE IF ev.kind = "connect"
    THEN connect_to_source_database(
             [r EXCEPT !.ss.source = s_in, !.shown = @ \cup {"connect_source"}], s_in, e)
    ELSE [r EXCEPT !.ss.source = s_in, !.shown = @ \cup {"connect_source"},
                   !.s_creds = Some(s_in), !.source_connected = HasNodeLabels(r.ss)]

\* return None, None, 0, 0
NoSelection(r) == [r EXCEPT !.selected_nodes = None, !.selected_rels = None]

\* lines 269-302, after the multiselects returned selected_nodes, selected_rels
count_preview(r, s_creds, selected_nodes, selected_rels, e) ==
    IF ~e.counts
    THEN [NoSelection(Call(r, "get_node_and_relationship_counts", s_creds, FALSE))
            EXCEPT !.raised = TRUE]
    ELSE IF \/ r.ss.show_refresh_message
            \/ r.ss.previous_nodes /= Some(selected_nodes)
            \/ r.ss.previous_rels /= Some(selected_rels)
    THEN [Call(r, "get_node_and_relationship_counts", s_creds, TRUE)
            EXCEPT !.ss.previous_nodes = Some(selected_nodes),
                   !.ss.previous_rels = Some(selected_rels),
                   !.ss.show_refresh_message = FALSE,
                   !.selected_nodes = Some(selected_nodes),
                   !.selected_rels = Some(selected_rels)]
    ELSE [Call(r, "get_node_and_relationship_counts", s_creds, TRUE)
            EXCEPT !.selected_nodes = Some(selected_nodes),
                   !.selected_rels = Some(selected_rels)]

\* st.multiselect(options, default=options, key=..): the widget's value,
\* or all the options when the widget has no state
Multiselect(widget, options) == IF widget = None THEN Val(options) ELSE Val(widget)

render_transfer_options_section(r, s_creds, e) ==
    IF ~HasNodeLabels(r.ss)
    THEN NoSelection(DropSelectionWidgets(r))
    ELSE count_preview(
             [r EXCEPT !.ss.selected_nodes_widget =
                           Some(Multiselect(r.ss.selected_nodes_widget, r.ss.node_labels)),
                       !.ss.selected_rels_widget =
                           Some(Multiselect(r.ss.selected_rels_widget, r.ss.relationship_types)),
                       !.shown = @ \cup {"options"}],
             s_creds,
             Multiselect(r.ss.selected_nodes_widget, r.ss.node_labels),
             Multiselect(r.ss.selected_rels_widget, r.ss.relationship_types),
             e)

\* The values the for loop puts on the progress bar for the items it iterates
RECURSIVE bar_updates(_)
bar_updates(items) ==
    IF items = <<>> THEN <<>>
    ELSE (IF has_float_completed(Head(items))
          THEN <<clamp(Head(items).frac)>>
          ELSE <<>>) \o bar_updates(Tail(items))

\* first_yield = next(transfer_gen) takes the first item; the for loop
\* iterates the others
AfterFirstYield(stream) ==
    IF Len(stream) <= 1 THEN <<>> ELSE SubSeq(stream, 2, Len(stream))

\* result after the for loop: the last item iterated, or None
LastResult(iterated) == IF iterated = <<>> THEN NullItem ELSE iterated[Len(iterated)]

LogEntry(timestamp, spec, result) ==
    [timestamp |-> timestamp,
     transfer_spec |-> model_dump(spec),
     result |-> result_dump(result)]

\* Variant of record_transfer: the entry is put at the end of the log
record_transfer_appending(r, spec, result) ==
    IF Truthy(result)
    THEN [r EXCEPT !.ss.transfer_log = @ \o <<LogEntry(r.now, spec, result)>>,
                   !.transferred = @ \o <<spec>>,
                   !.attempt.status = "Completed",
                   !.attempt.progress = @ \o <<10>>]
    ELSE [r EXCEPT !.attempt.status = "NoResult"]

\* lines 442-456: if result: the log entry is inserted at index 0
record_transfer(r, spec, result) ==
    IF Truthy(result)
    THEN [r EXCEPT !.ss.transfer_log = <<LogEntry(r.now, spec, result)>> \o @,
                   !.transferred = <<spec>> \o @,
                   !.attempt.status = "Completed",
                   !.attempt.progress = @ \o <<10>>]
    ELSE [r EXCEPT !.attempt.status = "NoResult"]

\* Variant of consume_stream: a purge that raised does not end the attempt
consume_stream_after_failed_purge(r, t_creds, spec, iterated, e) ==
    IF e.raises
    THEN [Call(r, "transfer_generator", t_creds, FALSE)
            EXCEPT !.attempt.status = "Failed", !.attempt.error = "stream",
                   !.attempt.consumed = Len(e.stream), !.attempt.stream = e.stream,
                   !.attempt.progress = <<0>> \o bar_updates(iterated)]
    ELSE record_transfer(
             [Call(r, "transfer_generator", t_creds, TRUE)
                EXCEPT !.attempt.consumed = Len(e.stream), !.attempt.stream = e.stream,
                       !.attempt.progress = <<0>> \o bar_updates(iterated)],
             spec, LastResult(iterated))

\* Variant of consume_stream: a stream that raised is recorded with the
\* last item it gave
consume_stream_logging_partial(r, t_creds, spec, iterated, e) ==
    IF ~r.ok
    THEN [r EXCEPT !.attempt.status = "Failed", !.attempt.error = "purge"]
    ELSE record_transfer(
             [Call(r, "transfer_generator", t_creds, ~e.raises)
                EXCEPT !.attempt.consumed = Len(e.stream), !.attempt.stream = e.stream,
                       !.attempt.progress = <<0>> \o bar_updates(iterated)],
             spec, LastResult(iterated))

\* lines 410-440 when the operator interacts with the page while the loop
\* runs: Streamlit stops the script at its next command, the progress
\* update of the last item pulled (a script-control exception, which is no
\* Exception: the except at line 458 does not see it).  Nothing after the
\* loop runs and no status is shown: the attempt is left as Transferring.
stopped_in_loop(r, t_creds, iterated, e) ==
    [Call(r, "transfer_generator", t_creds, TRUE)
        EXCEPT !.attempt.status = "Transferring",
               !.attempt.consumed = Len(e.stream), !.attempt.stream = e.stream,
               !.attempt.progress =
                   <<0>> \o bar_updates(SubSeq(iterated, 1, Len(iterated) - 1)),
               !.raised = TRUE]

\* lines 394-456: the stream is created and consumed
consume_stream(r, t_creds, spec, iterated, e) ==
    IF ~r.ok
    THEN [r EXCEPT !.attempt.status = "Failed", !.attempt.error = "purge"]
    ELSE IF e.stopped /\ iterated /= <<>>
    THEN stopped_in_loop(r, t_creds, iterated, e)
    ELSE IF e.raises
    THEN [Call(r, "transfer_generator", t_creds, FALSE)
            EXCEPT !.attempt.status = "Failed", !.attempt.error = "stream",
                   !.attempt.consumed = Len(e.stream), !.attempt.stream = e.stream,
                   !.attempt.progress = <<0>> \o bar_updates(iterated)]
    ELSE record_transfer(
             [Call(r, "transfer_generator", t_creds, TRUE)
                EXCEPT !.attempt.consumed = Len(e.stream), !.attempt.stream = e.stream,
                       !.attempt.progress = <<0>> \o bar_updates(iterated)],
             spec, LastResult(iterated))

run_transfer(r, t_creds, spec, purge, e) ==
    consume_stream(
        IF purge
        THEN Call([r EXCEPT !.attempt = [NoAttempt EXCEPT !.spec = Some(spec),
                                                           !.source = Some(r.ss.source),
                                                           !.target = Some(t_creds),
                                                           !.purge = purge]],
                  "reset_target_db", t_creds, e.purge)
        ELSE [r EXCEPT !.attempt = [NoAttempt EXCEPT !.spec = Some(spec),
                                                      !.source = Some(r.ss.source),
                                                      !.target = Some(t_creds),
                                                      !.purge = purge],
                       !.ok = TRUE],
        t_creds, spec, AfterFirstYield(e.stream), e)

\* Variant of PurgeConfirmed: st.session_state.get(PURGE_CONFIRMED, True)
PurgeConfirmed_default_true(ss) == ss.purge_confirmed = None \/ Val(ss.purge_confirmed)

\* st.session_state.get(PURGE_CONFIRMED, False)
PurgeConfirmed(ss) == ss.purge_confirmed /= None /\ Val(ss.purge_confirmed)

\* Variant of execute_transfer: no check of the node selection
execute_transfer_without_selection_check(r, t_creds, selected_nodes, selected_rels, ev, e) ==
    IF ev.kind /= "start"
    THEN [r EXCEPT !.shown = @ \cup {"start"}]
    ELSE IF r.purge_target /\ ~PurgeConfirmed(r.ss)
    THEN [r EXCEPT !.shown = @ \cup {"start"}, !.dialog_open = TRUE,
                   !.attempt.status = "PurgeConfirmPending"]
    ELSE run_transfer([r EXCEPT !.shown = @ \cup {"start"}, !.ss.purge_confirmed = None],
                      t_creds,
                      TransferSpec(selected_nodes, selected_rels, r.add_metadata),
                      r.purge_target, e)

\* Variant of execute_transfer: the spec is built from all the labels of
\* the schema
execute_transfer_all_labels(r, t_creds, selected_nodes, selected_rels, ev, e) ==
    IF ev.kind /= "start"
    THEN [r EXCEPT !.shown = @ \cup {"start"}]
    ELSE IF selected_nodes = {}
    THEN [r EXCEPT !.shown = @ \cup {"start"}, !.attempt.status = "Rejected"]
    ELSE IF r.purge_target /\ ~PurgeConfirmed(r.ss)
    THEN [r EXCEPT !.shown = @ \cup {"start"}, !.dialog_open = TRUE,
                   !.attempt.status = "PurgeConfirmPending"]
    ELSE run_transfer([r EXCEPT !.shown = @ \cup {"start"}, !.ss.purge_confirmed = None],
                      t_creds,
                      TransferSpec(Val(r.ss.node_labels), selected_rels, r.add_metadata),
                      r.purge_target, e)

\* Variant of execute_transfer: the confirmation flag is not popped before
\* the transfer
execute_transfer_keeping_confirmation(r, t_creds, selected_nodes, selected_rels, ev, e) ==
    IF ev.kind /= "start"
    THEN [r EXCEPT !.shown = @ \cup {"start"}]
    ELSE IF selected_nodes = {}
    THEN [r EXCEPT !.shown = @ \cup {"start"}, !.attempt.status = "Rejected"]
    ELSE IF r.purge_target /\ ~PurgeConfirmed(r.ss)
    THEN [r EXCEPT !.shown = @ \cup {"start"}, !.dialog_open = TRUE,
                   !.attempt.status = "PurgeConfirmPending"]
    ELSE run_transfer([r EXCEPT !.shown = @ \cup {"start"}],
                      t_creds,
                      TransferSpec(selected_nodes, selected_rels, r.add_metadata),
                      r.purge_target, e)

\* lines 347-371
execute_transfer(r, t_creds, selected_nodes, selected_rels, ev, e) ==
    IF ev.kind /= "start"
    THEN [r EXCEPT !.shown = @ \cup {"start"}]
    ELSE IF selected_nodes = {}
    THEN [r EXCEPT !.shown = @ \cup {"start"}, !.attempt.status = "Rejected"]
    ELSE IF r.purge_target /\ ~PurgeConfirmed(r.ss)
    THEN [r EXCEPT !.shown = @ \cup {"start"}, !.dialog_open = TRUE,
                   !.attempt.status = "PurgeConfirmPending"]
    ELSE run_transfer([r EXCEPT !.shown = @ \cup {"start"}, !.ss.purge_confirmed = None],
                      t_creds,
                      TransferSpec(selected_nodes, selected_rels, r.add_metadata),
                      r.purge_target, e)

\* lines 331-345, after validate_connection(t_creds)
target_validated(r, t_creds, selected_nodes, selected_rels, ev, e) ==
    IF ~r.ok THEN DropCheckboxes(r)
    ELSE execute_transfer(r, t_creds, selected_nodes, selected_rels, ev, e)

render_target_database_section(r, selected_nodes, selected_rels, ev, e) ==
    IF ~validate_required_fields(r.t_widget.uri, r.t_widget.password)
    THEN DropCheckboxes([r EXCEPT !.ss.target = r.t_widget, !.shown = @ \cup {"target"}])
    ELSE target_validated(
             validate_connection([r EXCEPT !.ss.target = r.t_widget,
                                           !.shown = @ \cup {"target"}],
                                 r.t_widget, e.validate_tgt),
             r.t_widget, selected_nodes, selected_rels, ev, e)

\* x or y
Or(x, y, falsy) == IF x /= falsy THEN x ELSE y

\* Variant of ResolvedTarget: the environment default comes first
ResolvedTarget_env_first(ss) ==
    Creds(Or(environ.target.uri, ss.target.uri, EmptyUri),
          Or(environ.target.username, ss.target.username, ""),
          Or(environ.target.password, ss.target.password, ""),
          Or(environ.target.database, ss.target.database, ""))

\* lines 483-498
ResolvedTarget(ss) ==
    Creds(Or(ss.target.uri, environ.target.uri, EmptyUri),
          Or(ss.target.username, environ.target.username, ""),
          Or(ss.target.password, environ.target.password, ""),
          Or(ss.target.database, environ.target.database, ""))

\* Variant of undo_clicked: the spec is built from the current selection
undo_clicked_current_selection(r, idx, t_creds, e) ==
    IF t_creds.uri = EmptyUri
    THEN [r EXCEPT !.undo_call = [NoUndo EXCEPT !.status = "Failed", !.idx = idx,
                                                !.error = "Target database URI is not set"]]
    ELSE [Call(r, "undo", t_creds, e.undo)
            EXCEPT !.undo_call =
                [status |-> IF e.undo THEN "Undone" ELSE "Failed", idx |-> idx,
                 creds |-> Some(t_creds),
                 spec |-> Some(TransferSpec(
                              Multiselect(r.ss.selected_nodes_widget, r.ss.node_labels),
                              Multiselect(r.ss.selected_rels_widget, r.ss.relationship_types),
                              r.ss.transfer_log[idx].transfer_spec.should_append_data)),
                 error |-> IF e.undo THEN "" ELSE "engine"]]

\* Variant of undo_clicked: an entry that was undone leaves the log
undo_clicked_removing_entry(r, idx, t_creds, e) ==
    IF t_creds.uri = EmptyUri
    THEN [r EXCEPT !.undo_call = [NoUndo EXCEPT !.status = "Failed", !.idx = idx,
                                                !.error = "Target database URI is not set"]]
    ELSE IF e.undo
    THEN [Call(r, "undo", t_creds, TRUE)
            EXCEPT !.undo_call =
                [status |-> "Undone", idx |-> idx, creds |-> Some(t_creds),
                 spec |-> Some(TransferSpecFromDict(r.ss.transfer_log[idx].transfer_spec)),
                 error |-> ""],
                   !.ss.transfer_log = SubSeq(@, 1, idx - 1) \o SubSeq(@, idx + 1, Len(@)),
                   !.transferred = SubSeq(@, 1, idx - 1) \o SubSeq(@, idx + 1, Len(@))]
    ELSE [Call(r, "undo", t_creds, FALSE)
            EXCEPT !.undo_call =
                [status |-> "Failed", idx |-> idx, creds |-> Some(t_creds),
                 spec |-> Some(TransferSpecFromDict(r.ss.transfer_log[idx].transfer_spec)),
                 error |-> "engine"]]

\* lines 480-514: the Undo Transfer button of entry idx was clicked
undo_clicked(r, idx, t_creds, e) ==
    IF t_creds.uri = EmptyUri
    THEN [r EXCEPT !.undo_call = [NoUndo EXCEPT !.status = "Failed", !.idx = idx,
                                                !.error = "Target database URI is not set"]]
    ELSE IF e.undo
    THEN [Call(r, "undo", t_creds, TRUE)
            EXCEPT !.undo_call =
                [status |-> "Undone", idx |-> idx, creds |-> Some(t_creds),
                 spec |-> Some(TransferSpecFromDict(r.ss.transfer_log[idx].transfer_spec)),
                 error |-> ""]]
    ELSE [Call(r, "undo", t_creds, FALSE)
            EXCEPT !.undo_call =
                [status |-> "Failed", idx |-> idx, creds |-> Some(t_creds),
                 spec |-> Some(TransferSpecFromDict(r.ss.transfer_log[idx].transfer_spec)),
                 error |-> "engine"]]

render_sidebar(r, ev, e) ==
    IF r.raised \/ r.ss.transfer_log = <<>> THEN r
    ELSE IF ev.kind /= "undo" \/ ev.idx \notin 1..Len(r.ss.transfer_log)
    THEN [r EXCEPT !.shown = @ \cup {"undo"}]
    ELSE undo_clicked([r EXCEPT !.shown = @ \cup {"undo"}], ev.idx, ResolvedTarget(r.ss), e)

\* lines 537-544 of main
main_target(r, ev, e) ==
    IF r.raised THEN r
    ELSE IF r.selected_nodes /= None
    THEN render_sidebar(
             render_target_database_section(r, Val(r.selected_nodes), Val(r.selected_rels),
                                            ev, e),
             ev, e)
    ELSE render_sidebar(DropCheckboxes(DropTargetInputs(r)), ev, e)

\* lines 530-544 of main.  A run that ends in st.rerun() or normally drops
\* the state of the widgets it did not draw; a run that raises keeps it.
main_options(r, ev, e) ==
    IF r.rerun
    THEN DropCheckboxes(DropTargetInputs(DropSelectionWidgets(r)))
    ELSE IF r.source_connected /\ r.s_creds /= None
    THEN main_target(render_transfer_options_section(r, Val(r.s_creds), e), ev, e)
    ELSE main_target(NoSelection(DropSelectionWidgets(r)), ev, e)

\* what a run starts from: nothing drawn, the locals unset
Fresh(r) ==
    [r EXCEPT !.shown = {}, !.dialog_open = FALSE,
              !.s_creds = None, !.source_connected = FALSE, !.rerun = FALSE,
              !.selected_nodes = None, !.selected_rels = None, !.raised = FALSE,
              !.ok = TRUE]

\* main(): one execution of the script
main(r, s_in, ev, e) ==
    main_options(render_source_database_section(Fresh(r), s_in, ev, e), ev, e)

----------------------------------------------------------------------------
(* The state machine *)

Engine(validate_src, labels, rels, counts, validate_tgt, purge, stream, raises, undo) ==
    [validate_src |-> validate_src, labels |-> labels, rels |-> rels, counts |-> counts,
     validate_tgt |-> validate_tgt, purge |-> purge, stream |-> stream,
     raises |-> raises, undo |-> undo, stopped |-> FALSE]

\* the answers to the calls of a run that only renders
Rendering(counts, validate_tgt) ==
    Engine(TRUE, None, None, counts, validate_tgt, TRUE, <<>>, FALSE, TRUE)

\* init_session_state()
InitialSessionState(env) ==
    [transfer_log |-> <<>>,
     node_labels |-> None,
     relationship_types |-> None,
     source |-> env.source,
     target |-> env.target,
     purge_confirmed |-> None,
     show_refresh_message |-> TRUE,
     previous_nodes |-> None,
     previous_rels |-> None,
     selected_nodes_widget |-> None,
     selected_rels_widget |-> None]

\* The run state an interaction starts from
Current ==
    [ss |-> session_state, t_widget |-> t_widget, purge_target |-> purge_target,
     add_metadata |-> add_metadata, dialog_open |-> dialog_open, shown |-> shown,
     now |-> now + 1, calls |-> <<>>, attempt |-> NoAttempt, undo_call |-> NoUndo,
     faults |-> faults, transferred |-> transferred,
     s_creds |-> None, source_connected |-> FALSE, rerun |-> FALSE,
     selected_nodes |-> None, selected_rels |-> None, raised |-> FALSE, ok |-> TRUE]

\* the run that follows a run ended by st.rerun()
Rerun(first, e2) ==
    IF first.rerun THEN main(first, first.ss.source, NoEvent, e2) ELSE first

\* An interaction: the run it triggers and, when that run ends in
\* st.rerun(), the run that follows it.
Interaction(r, s_in, ev, e, e2) == Rerun(main(r, s_in, ev, e), e2)

Becomes(r) ==
    /\ r.faults <= MaxFaults
    /\ session_state' = r.ss
    /\ t_widget' = r.t_widget
    /\ purge_target' = r.purge_target
    /\ add_metadata' = r.add_metadata
    /\ dialog_open' = r.dialog_open
    /\ shown' = r.shown
    /\ now' = r.now
    /\ calls' = r.calls
    /\ attempt' = r.attempt
    /\ undo_call' = r.undo_call
    /\ faults' = r.faults
    /\ transferred' = r.transferred
    /\ UNCHANGED environ

\* The page is opened: init_session_state() sets the defaults and the script
\* runs for the first time.  The source is not connected, so that run calls
\* the engine nowhere.
FirstRun(env) ==
    main([ss |-> InitialSessionState(env), t_widget |-> env.target, purge_target |-> FALSE,
          add_metadata |-> TRUE, dialog_open |-> FALSE, shown |-> {},
          now |-> 0, calls |-> <<>>, attempt |-> NoAttempt, undo_call |-> NoUndo,
          faults |-> 0, transferred |-> <<>>,
          s_creds |-> None, source_connected |-> FALSE, rerun |-> FALSE,
          selected_nodes |-> None, selected_rels |-> None, raised |-> FALSE, ok |-> TRUE],
         env.source, NoEvent, Rendering(TRUE, TRUE))

Init ==
    /\ environ \in EnvChoices
    /\ session_state = FirstRun(environ).ss
    /\ t_widget = FirstRun(environ).t_widget
    /\ purge_target = FirstRun(environ).purge_target
    /\ add_metadata = FirstRun(environ).add_metadata
    /\ dialog_open = FALSE
    /\ shown = FirstRun(environ).shown
    /\ now = 0
    /\ calls = <<>>
    /\ attempt = NoAttempt
    /\ undo_call = NoUndo
    /\ faults = 0
    /\ event = "open"
    /\ transferred = <<>>

\* What the engine can answer: each answer is "the call returns" (TRUE) or
\* "the call raises" (FALSE), and at most MaxFaults calls raise in a session.
Fails(ok) == IF ok THEN 0 ELSE 1
Budget == MaxFaults - faults

\* <<counts, validate_tgt>>: the answers to the calls of a run that renders
RenderAnswers == {a \in BOOLEAN \X BOOLEAN : Fails(a[1]) + Fails(a[2]) <= Budget}
AllFine == Rendering(TRUE, TRUE)

Usable == now < MaxTime /\ ~dialog_open

EditSource ==
    /\ Usable
    /\ \E s_in \in SourceInputs \ {session_state.source}, a \in RenderAnswers :
          /\ Becomes(Interaction(Current, s_in, NoEvent, Rendering(a[1], a[2]), AllFine))
          /\ event' = "edit_source"

\* <<validate_src, labels, rels>>: the handshake fails, get_node_labels
\* raises, get_relationship_types raises, or the schema is returned
ConnectAnswers ==
    {<<FALSE, None, None>>, <<TRUE, None, None>>, <<TRUE, Some(Labels), None>>}
        \cup {<<TRUE, Some(a[1]), Some(a[2])>> : a \in SchemaAnswers}

ConnectToSource ==
    /\ Usable
    /\ "connect_source" \in shown
    /\ \E c \in ConnectAnswers, a \in RenderAnswers :
          /\ Becomes(Interaction(Current, session_state.source, Click("connect"),
                                 Engine(c[1], c[2], c[3], TRUE, TRUE, TRUE, <<>>, FALSE, TRUE),
                                 Rendering(a[1], a[2])))
          /\ event' = "connect"

ChangeSelection ==
    /\ Usable
    /\ "options" \in shown
    /\ \E nodes \in SUBSET Val(session_state.node_labels),
          rels \in SUBSET Val(session_state.relationship_types),
          a \in RenderAnswers :
          /\ <<Some(nodes), Some(rels)>> /=
                <<session_state.selected_nodes_widget, session_state.selected_rels_widget>>
          /\ Becomes(Interaction([Current EXCEPT !.ss.selected_nodes_widget = Some(nodes),
                                                 !.ss.selected_rels_widget = Some(rels)],
                                 session_state.source, NoEvent,
                                 Rendering(a[1], a[2]), AllFine))
          /\ event' = "select"

EditTarget ==
    /\ Usable
    /\ "target" \in shown
    /\ \E t \in TargetInputs \ {t_widget}, a \in RenderAnswers :
          /\ Becomes(Interaction([Current EXCEPT !.t_widget = t], session_state.source,
                                 NoEvent, Rendering(a[1], a[2]), AllFine))
          /\ event' = "edit_target"

TogglePurge ==
    /\ Usable
    /\ "start" \in shown
    /\ \E a \in RenderAnswers :
          /\ Becomes(Interaction([Current EXCEPT !.purge_target = ~purge_target],
                                 session_state.source, NoEvent, Rendering(a[1], a[2]), AllFine))
          /\ event' = "toggle_purge"

ToggleMetadata ==
    /\ Usable
    /\ "start" \in shown
    /\ \E a \in RenderAnswers :
          /\ Becomes(Interaction([Current EXCEPT !.add_metadata = ~add_metadata],
                                 session_state.source, NoEvent, Rendering(a[1], a[2]), AllFine))
          /\ event' = "toggle_metadata"

\* The click reaches transfer_generator (whatever the stream then does)
ReachesStream(counts, validate_tgt, purge) ==
    Interaction(Current, session_state.source, Click("start"),
                Engine(TRUE, None, None, counts, validate_tgt, purge, <<>>, FALSE, TRUE),
                AllFine).attempt.status = "NoResult"

\* The streams the engine can answer a click with, <<items, raises>>: the
\* items it yields, and whether it then raises or ends
StreamAnswers(reaches) ==
    IF reaches THEN Streams \X BOOLEAN ELSE {<< <<>>, FALSE >>}

\* reset_target_db is called only with the purge option on: it returns
\* (TRUE) or raises (FALSE)
PurgeAnswers == IF purge_target THEN BOOLEAN ELSE {TRUE}

StartTransfer ==
    /\ Usable
    /\ "start" \in shown
    /\ Len(session_state.transfer_log) < MaxLog
    /\ \E a \in RenderAnswers, purge \in PurgeAnswers :
          \E sr \in StreamAnswers(ReachesStream(a[1], a[2], purge)) :
             /\ Becomes(Interaction(Current, session_state.source, Click("start"),
                                    Engine(TRUE, None, None, a[1], a[2], purge,
                                           sr[1], sr[2], TRUE),
                                    AllFine))
             /\ event' = "start"

\* A Start Transfer click whose run the operator stops in the for loop, by
\* the interaction that the next action is
InterruptTransfer ==
    /\ Usable
    /\ "start" \in shown
    /\ Len(session_state.transfer_log) < MaxLog
    /\ \E a \in RenderAnswers, purge \in PurgeAnswers :
          \E sr \in StreamAnswers(ReachesStream(a[1], a[2], purge)) :
             /\ Len(sr[1]) >= 2
             /\ ~sr[2]
             /\ Becomes(Interaction(Current, session_state.source, Click("start"),
                                    [Engine(TRUE, None, None, a[1], a[2], purge,
                                            sr[1], FALSE, TRUE) EXCEPT !.stopped = TRUE],
                                    AllFine))
             /\ event' = "start"

UndoTransfer ==
    /\ Usable
    /\ "undo" \in shown
    /\ \E idx \in 1..Len(session_state.transfer_log), a \in RenderAnswers, undo \in BOOLEAN :
          /\ Becomes(Interaction(Current, session_state.source, ClickUndoAt(idx),
                                 Engine(TRUE, None, None, a[1], a[2], TRUE, <<>>, FALSE, undo),
                                 AllFine))
          /\ event' = "undo"

\* Variant of DialogButton: either button sets the flag
DialogButton_always_confirming(confirmed) ==
    /\ dialog_open
    /\ now < MaxTime
    /\ \E a \in RenderAnswers :
          /\ Becomes(Interaction([Current EXCEPT !.ss.purge_confirmed = Some(TRUE)],
                                 session_state.source, NoEvent, Rendering(a[1], a[2]), AllFine))
          /\ event' = IF confirmed THEN "confirm" ELSE "cancel"

\* A button of confirm_purge_dialog: the dialog body runs alone, sets the
\* flag and calls st.rerun(), which runs the script.
DialogButton(confirmed) ==
    /\ dialog_open
    /\ now < MaxTime
    /\ \E a \in RenderAnswers :
          /\ Becomes(Interaction([Current EXCEPT !.ss.purge_confirmed = Some(confirmed)],
                                 session_state.source, NoEvent, Rendering(a[1], a[2]), AllFine))
          /\ event' = IF confirmed THEN "confirm" ELSE "cancel"

CancelPurge == DialogButton(FALSE)
ConfirmPurge == DialogButton(TRUE)

\* The dialog is closed without a button: no script run
DismissDialog ==
    /\ dialog_open
    /\ dialog_open' = FALSE
    /\ calls' = <<>>
    /\ attempt' = NoAttempt
    /\ undo_call' = NoUndo
    /\ event' = "dismiss"
    /\ UNCHANGED <<session_state, t_widget, purge_target, add_metadata, shown, environ, now,
                   faults, transferred>>

Next ==
    \/ EditSource
    \/ ConnectToSource
    \/ ChangeSelection
    \/ EditTarget
    \/ TogglePurge
    \/ ToggleMetadata
    \/ StartTransfer
    \/ UndoTransfer
    \/ CancelPurge
    \/ ConfirmPurge
    \/ DismissDialog

Spec == Init /\ [][Next]_vars

\* The sessions in which the operator may also act while a transfer runs
NextLive == Next \/ InterruptTransfer

SpecLive == Init /\ [][NextLive]_vars

----------------------------------------------------------------------------
(* Properties *)

\* the engine function fn is among the calls cs
Called(cs, fn) == \E i \in 1..Len(cs) : cs[i].fn = fn
\* ... and the call raised / returned
Raised(cs, fn) == \E i \in 1..Len(cs) : cs[i].fn = fn /\ ~cs[i].ok
Returned(cs, fn) == \E i \in 1..Len(cs) : cs[i].fn = fn /\ cs[i].ok

\* C1: a Start Transfer click made while the node-label selection is empty
\* is rejected, whatever the relationship selection, the purge option and
\* the confirmation flag are: neither reset_target_db nor
\* transfer_generator is called, no dialog opens and the transfer log is
\* unchanged.
C1_EmptySelectionRejected ==
    [][(event' = "start" /\ session_state.selected_nodes_widget = Some({}))
         => /\ attempt'.status \in {"Rejected", "None"}
            /\ ~Called(calls', "reset_target_db")
            /\ ~Called(calls', "transfer_generator")
            /\ ~dialog_open'
            /\ session_state'.transfer_log = session_state.transfer_log]_vars

\* a click with an empty node selection, a non-empty relationship selection
\* and the purge option on has been rejected
C1_Witness ==
    /\ event = "start"
    /\ attempt.status = "Rejected"
    /\ purge_target
    /\ session_state.selected_nodes_widget = Some({})
    /\ session_state.selected_rels_widget = Some(RelTypes)

\* C2: with the purge option on and the confirmation flag not true, a Start
\* Transfer click calls neither reset_target_db nor transfer_generator and
\* leaves the transfer log unchanged; the only thing it surfaces is the
\* confirmation dialog, which the click handler opens whenever it runs
\* with a non-empty node selection (an empty one is rejected before the
\* purge gate, C1).
C2_UnconfirmedPurgeGate ==
    [][(event' = "start" /\ purge_target /\ session_state.purge_confirmed /= Some(TRUE))
         => /\ ~Called(calls', "reset_target_db")
            /\ ~Called(calls', "transfer_generator")
            /\ session_state'.transfer_log = session_state.transfer_log
            /\ attempt'.status \in {"PurgeConfirmPending", "Rejected", "None"}
            /\ dialog_open' <=> attempt'.status = "PurgeConfirmPending"
            /\ (/\ attempt'.status /= "None"
                /\ session_state.selected_nodes_widget /= Some({}))
                  => dialog_open']_vars

\* the dialog has been surfaced by a click made after a recorded transfer
C2_Witness ==
    /\ event = "start"
    /\ attempt.status = "PurgeConfirmPending"
    /\ dialog_open
    /\ purge_target
    /\ session_state.purge_confirmed = None
    /\ Len(session_state.transfer_log) = 1

\* C3: when reset_target_db raises, transfer_generator is not called, no
\* stream item is consumed, nothing is put on the progress bar, the
\* attempt is Failed and the transfer log is unchanged.
C3_PurgeFailureStopsAttempt ==
    [][Raised(calls', "reset_target_db")
         => /\ ~Called(calls', "transfer_generator")
            /\ attempt'.status = "Failed"
            /\ attempt'.consumed = 0
            /\ attempt'.progress = <<>>
            /\ session_state'.transfer_log = session_state.transfer_log]_vars

\* a confirmed purge has failed
C3_Witness ==
    /\ event = "start"
    /\ Raised(calls, "reset_target_db")
    /\ attempt.purge
    /\ attempt.status = "Failed"

\* C4: when the engine stream raises, after however many items, the attempt
\* is Failed and the transfer log is exactly what it was before the attempt.
C4_StreamFailureLeavesLog ==
    [][Raised(calls', "transfer_generator")
         => /\ attempt'.status = "Failed"
            /\ session_state'.transfer_log = session_state.transfer_log
            /\ transferred' = transferred]_vars

\* the stream has raised after MaxStream items, with a transfer in the log
C4_Witness ==
    /\ event = "start"
    /\ Raised(calls, "transfer_generator")
    /\ attempt.consumed = MaxStream
    /\ attempt.status = "Failed"
    /\ Len(session_state.transfer_log) = 1

C6_LogGrowsAtFront ==
    [][\/ session_state'.transfer_log = session_state.transfer_log
       \/ /\ attempt'.status = "Completed"
          /\ Len(session_state'.transfer_log) = Len(session_state.transfer_log) + 1
          /\ \A i \in 1..Len(session_state.transfer_log) :
                /\ session_state'.transfer_log[i + 1] = session_state.transfer_log[i]
                /\ session_state'.transfer_log[1].timestamp
                      >= session_state.transfer_log[i].timestamp]_vars

\* a second entry has been put before the first
C6_Witness ==
    /\ event = "start"
    /\ Len(session_state.transfer_log) = 2
    /\ session_state.transfer_log[1].timestamp > session_state.transfer_log[2].timestamp
    /\ session_state.transfer_log[1].timestamp = now

\* C7: an undo of a log entry gives the engine the spec of the transfer
\* that created the entry, whatever was selected or connected since, and
\* leaves the entry's stored spec as it was.
C7_UndoUsesEntrySpec ==
    [][(event' = "undo" /\ Called(calls', "undo"))
         => /\ undo_call'.idx \in 1..Len(transferred)
            /\ undo_call'.spec = Some(transferred[undo_call'.idx])
            /\ session_state'.transfer_log = session_state.transfer_log]_vars

\* an entry has been undone after the selection was changed
C7_Witness ==
    /\ event = "undo"
    /\ undo_call.status = "Undone"
    /\ session_state.selected_nodes_widget /= None
    /\ Val(undo_call.spec).node_labels /= Val(session_state.selected_nodes_widget)

\* C8: the target an undo addresses is resolved field by field: the
\* session's target field when it is non-empty, else the environment
\* default.  When the URI so resolved is empty the undo fails with an error
\* that names it and the engine is not called.
C8_UndoTargetResolution ==
    undo_call.status /= "None" =>
        IF session_state.target.uri = EmptyUri /\ environ.target.uri = EmptyUri
        THEN /\ undo_call.status = "Failed"
             /\ undo_call.error = "Target database URI is not set"
             /\ ~Called(calls, "undo")
        ELSE /\ Called(calls, "undo")
             /\ Val(undo_call.creds).uri =
                   IF session_state.target.uri /= EmptyUri
                   THEN session_state.target.uri ELSE environ.target.uri
             /\ Val(undo_call.creds).username =
                   IF session_state.target.username /= ""
                   THEN session_state.target.username ELSE environ.target.username
             /\ Val(undo_call.creds).password =
                   IF session_state.target.password /= ""
                   THEN session_state.target.password ELSE environ.target.password
             /\ Val(undo_call.creds).database =
                   IF session_state.target.database /= ""
                   THEN session_state.target.database ELSE environ.target.database
             /\ calls[Len(calls)] = [fn |-> "undo", creds |-> Val(undo_call.creds),
                                     ok |-> undo_call.status = "Undone", ret |-> None]

\* an undo has failed for want of a target URI
C8_Witness ==
    /\ event = "undo"
    /\ undo_call.status = "Failed"
    /\ undo_call.error = "Target database URI is not set"
    /\ session_state.target.uri = EmptyUri
    /\ environ.target.uri = EmptyUri

\* C9: an undo, successful or failed, leaves the transfer log as it was, and
\* the run that handled it has drawn the undo buttons again: every entry,
\* the undone one included, can be undone afterwards.
C9_UndoKeepsLog ==
    [][event' = "undo"
         => /\ session_state'.transfer_log = session_state.transfer_log
            /\ transferred' = transferred
            /\ undo_call'.status /= "None" => "undo" \in shown']_vars

\* the older of two entries has been undone
C9_Witness ==
    /\ event = "undo"
    /\ undo_call.status = "Undone"
    /\ undo_call.idx = 2
    /\ Len(session_state.transfer_log) = 2
    /\ "undo" \in shown

\* C10: after the operator cancels the confirmation dialog the confirmation
\* flag is false and stays false until the next Start Transfer click; that
\* click, made with the purge option on, surfaces the dialog again (when
\* its handler runs with a non-empty node selection) and does not call
\* reset_target_db.
C10_CancelKeepsGateClosed ==
    [][/\ event' = "cancel"
          => session_state'.purge_confirmed = Some(FALSE) /\ ~dialog_open'
       /\ (/\ session_state.purge_confirmed = Some(FALSE)
           /\ ~dialog_open
           /\ event' /= "start")
          => session_state'.purge_confirmed = Some(FALSE) /\ ~dialog_open'
       /\ (/\ session_state.purge_confirmed = Some(FALSE)
           /\ ~dialog_open
           /\ event' = "start"
           /\ purge_target)
          => /\ ~Called(calls', "reset_target_db")
             /\ ~Called(calls', "transfer_generator")
             /\ (/\ attempt'.status /= "None"
                 /\ session_state.selected_nodes_widget /= Some({}))
                   => dialog_open' /\ attempt'.status = "PurgeConfirmPending"]_vars

\* the dialog is on screen again after a cancel
C10_Witness ==
    /\ event = "start"
    /\ dialog_open
    /\ attempt.status = "PurgeConfirmPending"
    /\ session_state.purge_confirmed = Some(FALSE)

\* C11: the confirmation flag becomes true only by the confirm button of
\* the dialog, and navigating away after confirming (unchecking the purge
\* option, editing the target fields, changing the selection, reconnecting
\* the source) resets it.
C11_ConfirmationScoped ==
    [][/\ (/\ session_state'.purge_confirmed = Some(TRUE)
           /\ session_state.purge_confirmed /= Some(TRUE))
          => event' = "confirm" /\ dialog_open
       /\ event' \in {"toggle_purge", "edit_target", "select", "connect"}
          => session_state'.purge_confirmed /= Some(TRUE)]_vars

\* the connection identity of a source profile
Identity(creds) == <<creds.uri, creds.username, creds.database>>

\* C12: after a change of the source's uri, username or database the stored
\* labels and types are invalid: until a new successful Connect they are
\* not offered for selection and not counted against the changed profile.
C12_SchemaInvalidatedBySourceChange ==
    [][(/\ event' = "edit_source"
        /\ Identity(session_state'.source) /= Identity(session_state.source))
         => /\ "options" \notin shown'
            /\ ~Called(calls', "get_node_and_relationship_counts")
            /\ session_state'.selected_nodes_widget = None]_vars

\* what the call of fn in cs returned
ReturnOf(cs, fn) == (CHOOSE c \in {cs[i] : i \in 1..Len(cs)} : c.fn = fn).ret

\* C13: a successful Connect stores exactly the labels and types the engine
\* returned for the profile and clears the selection state: the selection
\* the page then holds is absent or the default one (the whole new
\* schema), and no selection ever lies outside the stored schema.
C13_ConnectReplacesSchema ==
    [][/\ (event' = "connect" /\ Returned(calls', "get_relationship_types"))
          => /\ session_state'.node_labels = ReturnOf(calls', "get_node_labels")
             /\ session_state'.relationship_types
                   = ReturnOf(calls', "get_relationship_types")
             /\ session_state'.selected_nodes_widget
                   \in {None, session_state'.node_labels}
             /\ session_state'.selected_rels_widget
                   \in {None, session_state'.relationship_types}
             /\ session_state'.previous_nodes \in {None, session_state'.node_labels}
             /\ session_state'.previous_rels
                   \in {None, session_state'.relationship_types}
       /\ session_state'.selected_nodes_widget /= None
          => Val(session_state'.selected_nodes_widget)
                \subseteq Val(session_state'.node_labels)
       /\ session_state'.selected_rels_widget /= None
          => Val(session_state'.selected_rels_widget)
                \subseteq Val(session_state'.relationship_types)]_vars

\* a reconnect with a changed database field has replaced the schema that a
\* recorded transfer was selected from
C13_Witness ==
    /\ event = "connect"
    /\ Returned(calls, "get_relationship_types")
    /\ session_state.source.database = "other"
    /\ session_state.node_labels = Some({"Person"})
    /\ session_state.selected_nodes_widget = Some({"Person"})
    /\ Len(session_state.transfer_log) = 1
    /\ session_state.transfer_log[1].transfer_spec.node_labels = Labels

\* C14: a Connect checks the URI scheme, then calls validate_credentials,
\* then discovers the schema.  A URI with an unaccepted scheme causes no
\* engine call; a failed check or handshake causes no get_node_labels or
\* get_relationship_types call and leaves the stored schema and the
\* selection state (the previous-selection records and the values of the
\* selection widgets) unchanged.
C14_ConnectStepsInOrder ==
    [][event' = "connect"
         => /\ ~validate_uri(session_state.source.uri) => calls' = <<>>
            /\ Called(calls', "get_node_labels")
                  => /\ calls'[1].fn = "validate_credentials" /\ calls'[1].ok
                     /\ calls'[2].fn = "get_node_labels"
            /\ ~Returned(calls', "validate_credentials")
                  => /\ ~Called(calls', "get_node_labels")
                     /\ ~Called(calls', "get_relationship_types")
                     /\ session_state'.node_labels = session_state.node_labels
                     /\ session_state'.relationship_types
                           = session_state.relationship_types
                     /\ session_state'.previous_nodes = session_state.previous_nodes
                     /\ session_state'.previous_rels = session_state.previous_rels
                     /\ session_state'.selected_nodes_widget
                           = session_state.selected_nodes_widget
                     /\ session_state'.selected_rels_widget
                           = session_state.selected_rels_widget]_vars

\* C15: when the stream ends without raising and without a final result (an
\* empty stream, or a stream of one item) the attempt is Failed with an
\* error shown to the operator, and no log entry is added.
C15_MissingResultIsFailure ==
    [][(/\ event' = "start"
        /\ Returned(calls', "transfer_generator")
        /\ attempt'.consumed <= 1)
         => /\ attempt'.status = "Failed"
            /\ attempt'.error /= ""
            /\ session_state'.transfer_log = session_state.transfer_log]_vars

\* the values of a sequence never decrease
NonDecreasing(q) == \A i \in 1..Len(q) : \A j \in i..Len(q) : q[i] <= q[j]

\* the fractions of the progress objects of a stream, in order
RECURSIVE FractionsOf(_)
FractionsOf(items) ==
    IF items = <<>> THEN <<>>
    ELSE (IF Head(items).kind = "progress" THEN <<Head(items).frac>> ELSE <<>>)
            \o FractionsOf(Tail(items))

\* C16 as claimed: within one attempt the values put on the progress bar
\* never decrease, the first one is >= 0.0, and the last one of a Completed
\* attempt is 1.0.
C16_ProgressNonDecreasing ==
    /\ NonDecreasing(attempt.progress)
    /\ attempt.progress /= <<>> => attempt.progress[1] >= 0
    /\ attempt.status = "Completed" => attempt.progress[Len(attempt.progress)] = 10

\* C16 as amended: the same, for the attempts whose engine stream emits
\* fractions that never decrease (the engine's contract); every value put
\* on the bar is within [0.0, 1.0] whatever the stream emits.
C16_ProgressFollowsEngine ==
    /\ \A i \in 1..Len(attempt.progress) :
          attempt.progress[i] >= 0 /\ attempt.progress[i] <= 10
    /\ attempt.progress /= <<>> => attempt.progress[1] = 0
    /\ attempt.status = "Completed" => attempt.progress[Len(attempt.progress)] = 10
    /\ NonDecreasing(FractionsOf(attempt.stream)) => NonDecreasing(attempt.progress)

\* a Completed attempt whose stream went from 0.4 to 1.5
C16_Witness ==
    /\ attempt.status = "Completed"
    /\ FractionsOf(attempt.stream) = <<4, 4, 15>>
    /\ attempt.progress = <<0, 4, 10, 10>>

\* C18: every engine call (credential validation, schema discovery, count
\* query, purge, transfer, undo) is made with a profile whose uri and
\* password are both non-empty; a transfer also reads a source profile
\* with both.
C18_NoCallWithoutUriAndPassword ==
    /\ \A i \in 1..Len(calls) :
          calls[i].creds.uri /= EmptyUri /\ calls[i].creds.password /= ""
    /\ attempt.source /= None
          => Val(attempt.source).uri /= EmptyUri /\ Val(attempt.source).password /= ""

\* C19: a failure of the count query is not fatal: the session state
\* (schema, selection, log) is unchanged and the rest of the page (target
\* section, Start Transfer, transfer history and undo) is drawn in that
\* same run.
C19_PreviewFailureNotFatal ==
    [][Raised(calls', "get_node_and_relationship_counts")
         => /\ session_state'.node_labels = session_state.node_labels
            /\ session_state'.relationship_types = session_state.relationship_types
            /\ session_state'.transfer_log = session_state.transfer_log
            /\ "target" \in shown'
            /\ session_state'.transfer_log /= <<>> => "undo" \in shown']_vars

\* C17: an attempt that the operator stops while it is Transferring stops
\* consuming the stream at the next progress update, applies no further
\* progress, ends as Cancelled and adds no log entry.
C17_StoppedAttemptIsCancelled ==
    [][(event' = "start" /\ attempt'.consumed >= 2
        /\ Len(attempt'.progress) < attempt'.consumed
        /\ ~Raised(calls', "transfer_generator"))
         => /\ attempt'.status = "Cancelled"
            /\ session_state'.transfer_log = session_state.transfer_log]_vars

\* C20: a Start Transfer click made while an attempt is Transferring is
\* rejected: transfer_generator is not called again before that attempt
\* has reached a terminal status.
C20_OneLiveAttempt ==
    [][(attempt.status = "Transferring" /\ event' = "start")
         => /\ ~Called(calls', "transfer_generator")
            /\ attempt'.status \in {"Rejected", "None"}]_vars

\* C21: every progress snapshot the engine stream emits in an attempt, the
\* first one included, is put on the progress bar in order, clamped into
\* [0.0, 1.0]: none is dropped.
C21_EverySnapshotApplied ==
    \A i \in 1..Len(FractionsOf(attempt.stream)) :
        /\ i + 1 <= Len(attempt.progress)
        /\ attempt.progress[i + 1] =
              (IF FractionsOf(attempt.stream)[i] < 0 THEN 0
               ELSE IF FractionsOf(attempt.stream)[i] > 10 THEN 10
               ELSE FractionsOf(attempt.stream)[i])

====
